---- MODULE Spec2Model ----
(***************************************************************************)
(* Model of the arc-spline segmentation of src/arc.cc: the bisection cut   *)
(* search (binary_find_cut_L / binary_find_cut_R), the two greedy passes   *)
(* (find_cut_points_L / find_cut_points_R) and the reconcile, refinement   *)
(* ("jiggle") and arc-drawing loops of demo_curve.                         *)
(*                                                                         *)
(* Numbers.  Curve parameters are doubles in [0,1] in the source.  Here a  *)
(* parameter is a fixed-point fraction k / S with S = 2^GridBits, written  *)
(* as the integer k; an operation that yields a value off the grid rounds  *)
(* to nearest, ties to even, as IEEE-754 arithmetic does.  Error values    *)
(* are integers in units of 1 / ErrScale, so epsilon is                    *)
(* EPSILON * ErrScale units; NaN is a separate value for which every       *)
(* comparison is false.  The grid is coarser than a double, so a search    *)
(* meets its resolution within MAX_ITERS halvings and its last midpoints   *)
(* round onto low or high; a double meets its own resolution in the same   *)
(* way once the start of a search is close enough to 1.                    *)
(*                                                                         *)
(* The curve.  The geometry (Bezier evaluation and splitting, circle       *)
(* construction, tangents) is outside src/arc.cc; it reaches the           *)
(* segmentation only through the value of arc_bezier_error_improved on a   *)
(* sub-segment and through the curvature at a parameter.  A curve is       *)
(* therefore a record that fixes both as functions of the parameters; the  *)
(* initial state draws it from a bounded family.                           *)
(***************************************************************************)
EXTENDS Integers, Sequences, FiniteSets, TLC

-----------------------------------------------------------------------------
(* Program constants *)

MAX_ITERS == 20

EPSILON == 1

JIGGLE_END == 10

(* Bounds of the model *)

GridBits == 6

ErrScale == 16

MaxWeight == 4

MaxKappa == 1

DevBits == 4

MaxDev == 3

FineBits == 21

RECURSIVE Pow2(_)
Pow2(n) == IF n <= 0 THEN 1 ELSE 2 * Pow2(n - 1)

S == Pow2(GridBits)

(* Capacity of a deque: push_back / push_front beyond it throws            *)
(* std::bad_alloc.  A pass that advances with every cut pushes at most S   *)
(* values, so only a pass that stops advancing exhausts it.                *)
MaxCuts == S + 1

(* Parameters further than this from [0,1] are not followed. *)
ParamLimit == 4 * S

NaN == 0 - 1

Epsilon == EPSILON * ErrScale

-----------------------------------------------------------------------------
(* Arithmetic *)

Abs(x) == IF x < 0 THEN -x ELSE x

Min(a, b) == IF a < b THEN a ELSE b

Max(a, b) == IF a > b THEN a ELSE b

(* n / d for d > 0, rounded to the nearest integer, ties to even *)
RoundDiv(n, d) ==
  LET q == n \div d
      r == n % d
  IN  IF 2 * r < d THEN q
      ELSE IF 2 * r > d THEN q + 1
      ELSE IF q % 2 = 0 THEN q ELSE q + 1

(* error < epsilon, error == epsilon, a > b on doubles: false on NaN *)
Less(a, b) == a # NaN /\ b # NaN /\ a < b

Equal(a, b) == a # NaN /\ b # NaN /\ a = b

Greater(a, b) == a # NaN /\ b # NaN /\ a > b

-----------------------------------------------------------------------------
(* The curve family *)

(* nan: the estimate of every sub-segment is NaN (collinear control        *)
(*      points: the fitted circle has no finite radius);                   *)
(* wl, wr, brk: error per grid cell left and right of parameter brk;       *)
(* kl, kr: curvature left and right of brk.                                *)
BreakSet == {S \div 4, S \div 2, (3 * S) \div 4, (7 * S) \div 8}

KappaSet == {-MaxKappa, MaxKappa}

CurveSet ==
  [nan : {FALSE}, wl : 0..MaxWeight, wr : 0..MaxWeight, brk : BreakSet,
   kl : KappaSet, kr : KappaSet]
  \cup
  [nan : {TRUE}, wl : {0}, wr : {0}, brk : {S \div 2},
   kl : {MaxKappa}, kr : {MaxKappa}]

(* arc_bezier_error_improved (b.segment (a, z)) *)
arc_bezier_error_improved(c, a, z) ==
  IF c.nan THEN NaN
  ELSE LET lo == Min(a, z)
           hi == Max(a, z)
           nl == Max(0, Min(hi, c.brk) - lo)
           nr == (hi - lo) - nl
       IN  c.wl * nl + c.wr * nr

(* the signed curvature computed from b.tangent (p) and b.d_tangent (p) *)
curvature(c, p) == IF p < c.brk THEN c.kl ELSE c.kr

(* pow (2, (1+curvature)) as the fraction PowNum / PowDen *)
PowNum(k) == IF 1 + k >= 0 THEN Pow2(1 + k) ELSE 1

PowDen(k) == IF 1 + k >= 0 THEN 1 ELSE Pow2(0 - (1 + k))

-----------------------------------------------------------------------------
(* State *)

VARIABLES
  curve,          \* the Bezier b of demo_curve
  pc,             \* position in demo_curve
  t,              \* t of find_cut_points_L / _R; i / j of the search
  low, high,      \* locals of binary_find_cut_L / _R
  cut,            \* local cut_point of binary_find_cut_L / _R
  count,          \* loop counter of binary_find_cut_L / _R
  error,          \* local error of binary_find_cut_L / _R
  evals,          \* estimator evaluations inside the loop of the current call
  steps,          \* bisection steps of the current pass
  left_cuts, right_cuts,
  undefined_read, \* right_cuts.front () has been called on an empty deque
  num_cut_ranges, cut_low, cut_high, cut_point, arc_error,
  cut_count, jiggle_count, cut_number,
  passes,         \* completed passes of the refinement loop
  moved,          \* the last adjustment of the refinement loop: cut k moved
                  \* from .. to, the stored errors left and right of it,
                  \* the parameter at which the curvature was taken
  previous_cut,
  arcs,           \* the arc segments drawn, as <<previous_cut, current_cut>>
  d0, d1,         \* the arguments of max_dev
  candidates,     \* candidates [0 .. num_candidates - 1] of max_dev
  dev_e,          \* local e of max_dev
  dev_i,          \* loop index i of max_dev
  divided,        \* max_dev has divided by 3 * (d0 - d1)
  dev_pc          \* position in max_dev

search == <<t, low, high, cut, count, error, evals, steps>>

deques == <<left_cuts, right_cuts>>

ranges == <<num_cut_ranges, cut_low, cut_high, cut_point, arc_error, cut_count>>

jiggle == <<jiggle_count, cut_number, passes, moved>>

drawing == <<previous_cut, arcs>>

max_dev == <<d0, d1, candidates, dev_e, dev_i, divided, dev_pc>>

vars == <<curve, pc, search, deques, undefined_read, ranges, jiggle, drawing,
          max_dev>>

NoMove ==
  [k |-> 0 - 1, from |-> 0, to |-> 0, left |-> 0, right |-> 0, at |-> 0]

(* the locals of demo_curve before its first statement *)
DemoCurveEntry ==
  /\ t = 0
  /\ low = 0 /\ high = 0 /\ cut = 0 /\ count = 0 /\ error = 0
  /\ evals = 0 /\ steps = 0
  /\ left_cuts = << >> /\ right_cuts = << >>
  /\ undefined_read = FALSE
  /\ num_cut_ranges = 0
  /\ cut_low = << >> /\ cut_high = << >>
  /\ cut_point = << >> /\ arc_error = << >>
  /\ cut_count = 0 /\ jiggle_count = 0 /\ cut_number = 0
  /\ passes = 0 /\ moved = NoMove
  /\ previous_cut = 0 /\ arcs = << >>

(* max_dev is not running *)
MaxDevIdle ==
  /\ d0 = 0 /\ d1 = 0
  /\ candidates = << >>
  /\ dev_e = 0 /\ dev_i = 0
  /\ divided = FALSE
  /\ dev_pc = "idle"

Init ==
  /\ curve \in CurveSet
  /\ pc = "L_loop"
  /\ DemoCurveEntry
  /\ MaxDevIdle

-----------------------------------------------------------------------------
(* binary_find_cut_L and find_cut_points_L *)

(* a point one third of the way from low to high *)
Midpoint_Third(lo, hi) == RoundDiv(2 * lo + hi, 3)

(* (low + high) / 2.0 *)
Midpoint(lo, hi) == RoundDiv(lo + hi, 2)

(* the loop test, one iteration too many *)
InLoop_OneMore(n) == n <= MAX_ITERS + 1

(* the loop test count <= MAX_ITERS *)
InLoop(n) == n <= MAX_ITERS

(* the fast-path test with its operands exchanged *)
FastPath_Exchanged(e) == Less(Epsilon, e)

(* the fast-path test of both searches: error < epsilon *)
FastPath(e) == Less(e, Epsilon)

(* the exact-hit test inside both loops: error == epsilon *)
ExactHit(e) == Equal(e, Epsilon)

(* the narrowing test inverted: the bounds low and high change roles *)
Feasible_Inverted(e) == ~Less(e, Epsilon)

(* the narrowing test inside both loops: error < epsilon *)
Feasible(e) == Less(e, Epsilon)

(* t = binary_find_cut_L (...) returns v; left_cuts.push_back (t) *)
PushBackL(v) ==
  /\ t' = v
  /\ IF Len(left_cuts) < MaxCuts
       THEN /\ left_cuts' = Append(left_cuts, v)
            /\ pc' = "L_loop"
       ELSE /\ left_cuts' = left_cuts
            /\ pc' = "bad_alloc"

(* while (t < 1): enter binary_find_cut_L, up to the first loop test *)
FindCutL ==
  /\ pc = "L_loop"
  /\ t < S
  /\ LET e == arc_bezier_error_improved(curve, t, S) IN
       /\ error' = e
       /\ evals' = 0
       /\ IF FastPath(e)
            THEN /\ PushBackL(S)
                 /\ UNCHANGED <<low, high, cut, count, steps>>
            ELSE /\ low' = t
                 /\ high' = S
                 /\ count' = 1
                 /\ pc' = "L_bisect"
                 /\ UNCHANGED <<t, cut, steps, left_cuts>>
  /\ UNCHANGED <<max_dev, curve, undefined_read, right_cuts, ranges, jiggle, drawing>>

(* one iteration of the loop of binary_find_cut_L *)
BisectL ==
  /\ pc = "L_bisect"
  /\ InLoop(count)
  /\ LET m == Midpoint(low, high)
         e == arc_bezier_error_improved(curve, t, m)
     IN  /\ cut' = m
         /\ error' = e
         /\ evals' = evals + 1
         /\ steps' = steps + 1
         /\ IF ExactHit(e)
              THEN /\ PushBackL(m)
                   /\ UNCHANGED <<low, high, count>>
              ELSE /\ IF Feasible(e)
                        THEN low' = m /\ high' = high
                        ELSE high' = m /\ low' = low
                   /\ count' = count + 1
                   /\ UNCHANGED <<t, pc, left_cuts>>
  /\ UNCHANGED <<max_dev, curve, undefined_read, right_cuts, ranges, jiggle, drawing>>

(* the loop of binary_find_cut_L ends: return cut_point *)
ReturnL ==
  /\ pc = "L_bisect"
  /\ ~InLoop(count)
  /\ PushBackL(cut)
  /\ UNCHANGED <<max_dev, curve, undefined_read, low, high, cut, count, error, evals,
                 steps, right_cuts, ranges, jiggle, drawing>>

(* find_cut_points_L returns; find_cut_points_R starts with t = 1 *)
ExitL ==
  /\ pc = "L_loop"
  /\ ~(t < S)
  /\ pc' = "R_loop"
  /\ t' = S
  /\ steps' = 0
  /\ evals' = 0
  /\ UNCHANGED <<max_dev, curve, undefined_read, low, high, cut, count, error, deques,
                 ranges, jiggle, drawing>>

-----------------------------------------------------------------------------
(* binary_find_cut_R and find_cut_points_R *)

(* t = binary_find_cut_R (...) returns v; right_cuts.push_front (t) *)
PushFrontR(v) ==
  /\ t' = v
  /\ IF Len(right_cuts) < MaxCuts
       THEN /\ right_cuts' = <<v>> \o right_cuts
            /\ pc' = "R_loop"
       ELSE /\ right_cuts' = right_cuts
            /\ pc' = "bad_alloc"

FindCutR ==
  /\ pc = "R_loop"
  /\ t > 0
  /\ LET e == arc_bezier_error_improved(curve, 0, t) IN
       /\ error' = e
       /\ evals' = 0
       /\ IF FastPath(e)
            THEN /\ PushFrontR(0)
                 /\ UNCHANGED <<low, high, cut, count, steps>>
            ELSE /\ low' = 0
                 /\ high' = t
                 /\ count' = 1
                 /\ pc' = "R_bisect"
                 /\ UNCHANGED <<t, cut, steps, right_cuts>>
  /\ UNCHANGED <<max_dev, curve, undefined_read, left_cuts, ranges, jiggle, drawing>>

BisectR ==
  /\ pc = "R_bisect"
  /\ InLoop(count)
  /\ LET m == Midpoint(low, high)
         e == arc_bezier_error_improved(curve, m, t)
     IN  /\ cut' = m
         /\ error' = e
         /\ evals' = evals + 1
         /\ steps' = steps + 1
         /\ IF ExactHit(e)
              THEN /\ PushFrontR(m)
                   /\ UNCHANGED <<low, high, count>>
              ELSE /\ IF Feasible(e)
                        THEN high' = m /\ low' = low
                        ELSE low' = m /\ high' = high
                   /\ count' = count + 1
                   /\ UNCHANGED <<t, pc, right_cuts>>
  /\ UNCHANGED <<max_dev, curve, undefined_read, left_cuts, ranges, jiggle, drawing>>

ReturnR ==
  /\ pc = "R_bisect"
  /\ ~InLoop(count)
  /\ PushFrontR(cut)
  /\ UNCHANGED <<max_dev, curve, undefined_read, low, high, cut, count, error, evals,
                 steps, left_cuts, ranges, jiggle, drawing>>

-----------------------------------------------------------------------------
(* demo_curve: reconcile *)

(* find_cut_points_R returns; left_cuts.pop_back (), right_cuts.pop_front (), *)
(* the arrays are declared, cut_point [0] = 0                                 *)
PopEnds ==
  /\ pc = "R_loop"
  /\ ~(t > 0)
  /\ left_cuts' = SubSeq(left_cuts, 1, Len(left_cuts) - 1)
  /\ right_cuts' = Tail(right_cuts)
  /\ num_cut_ranges' = Len(left_cuts) - 1
  /\ cut_count' = 0
  /\ cut_point' = (0 :> 0)
  /\ cut_low' = << >> /\ cut_high' = << >> /\ arc_error' = << >>
  /\ pc' = "reconcile"
  /\ UNCHANGED <<max_dev, curve, undefined_read, search, jiggle, drawing>>

(* right_cuts.front () and right_cuts.pop_front (): on an empty deque both *)
(* are undefined, the value read is any parameter                          *)
FrontValues(q) == IF q = << >> THEN 0..S ELSE {Head(q)}

PopFront(q) == IF q = << >> THEN << >> ELSE Tail(q)

(* the midpoint of a cut range, the initial guess of its cut point *)
InitialGuess(lo, hi) == Midpoint(lo, hi)

(* one iteration of while (!left_cuts.empty()) *)
Reconcile ==
  /\ pc = "reconcile"
  /\ left_cuts # << >>
  /\ \E lo \in FrontValues(right_cuts) :
       LET hi == Head(left_cuts)
           p  == InitialGuess(lo, hi)
       IN  /\ cut_low' = cut_low @@ (cut_count :> lo)
           /\ cut_high' = cut_high @@ (cut_count :> hi)
           /\ cut_point' = cut_point @@ ((cut_count + 1) :> p)
           /\ arc_error' = arc_error @@
                (cut_count :>
                   arc_bezier_error_improved(curve, cut_point[cut_count], p))
  /\ undefined_read' = (undefined_read \/ right_cuts = << >>)
  /\ right_cuts' = PopFront(right_cuts)
  /\ left_cuts' = Tail(left_cuts)
  /\ cut_count' = cut_count + 1
  /\ UNCHANGED <<max_dev, curve, pc, search, num_cut_ranges, jiggle, drawing>>

(* after the loop: cut_point [cut_count + 1] = 1 and the last arc_error; *)
(* the refinement loop starts with jiggle_count = 1                      *)
ReconcileEnd ==
  /\ pc = "reconcile"
  /\ left_cuts = << >>
  /\ cut_point' = cut_point @@ ((cut_count + 1) :> S)
  /\ arc_error' = arc_error @@
       (cut_count :> arc_bezier_error_improved(curve, cut_point[cut_count], S))
  /\ jiggle_count' = 1
  /\ cut_number' = 0
  /\ pc' = "jiggle"
  /\ UNCHANGED <<max_dev, curve, undefined_read, search, deques, num_cut_ranges,
                 cut_low, cut_high,
                 cut_count, passes, moved, drawing>>

-----------------------------------------------------------------------------
(* demo_curve: refinement *)

(* the test of the outer loop: jiggle_count < 10 *)
InJiggle(n) == n < JIGGLE_END

(* the parameter at which tangent and d_tangent are taken for cut cn *)
CurvatureAt(cp, cn) == cp[cn]

(* cut_point [cn+1] after the adjustment; step_size is                   *)
(* |e1 - e0| / (pow (2, 1 + k) * EPSILON) = num / den                    *)
Adjusted(p, lo, hi, e0, e1, k) ==
  LET num == Abs(e1 - e0) * PowDen(k)
      den == PowNum(k) * EPSILON * ErrScale
  IN  IF Greater(e1, e0)
        THEN RoundDiv(p * den - num * (p - lo), den)
        ELSE RoundDiv(p * den + num * (hi - p), den)

(* the arc_error entries rewritten after cut cn has moved *)
UpdatedErrors(c, ae, cp, cn) ==
  [ae EXCEPT ![cn] = arc_bezier_error_improved(c, cp[cn], cp[cn + 1])]

(* one iteration of the inner loop *)
Jiggle ==
  /\ pc = "jiggle"
  /\ InJiggle(jiggle_count)
  /\ cut_number < num_cut_ranges
  /\ LET k == curvature(curve, CurvatureAt(cut_point, cut_number))
         p == Adjusted(cut_point[cut_number + 1], cut_low[cut_number],
                       cut_high[cut_number], arc_error[cut_number],
                       arc_error[cut_number + 1], k)
         cp == [cut_point EXCEPT ![cut_number + 1] = p]
     IN  /\ moved' = [k |-> cut_number, from |-> cut_point[cut_number + 1],
                      to |-> p, left |-> arc_error[cut_number],
                      right |-> arc_error[cut_number + 1],
                      at |-> CurvatureAt(cut_point, cut_number)]
         /\ IF Abs(p) <= ParamLimit
              THEN /\ cut_point' = cp
                   /\ arc_error' =
                        UpdatedErrors(curve, arc_error, cp, cut_number)
                   /\ cut_number' = cut_number + 1
                   /\ pc' = pc
              ELSE /\ pc' = "out_of_range"
                   /\ UNCHANGED <<cut_point, arc_error, cut_number>>
  /\ UNCHANGED <<max_dev, curve, undefined_read, search, deques, num_cut_ranges,
                 cut_low, cut_high,
                 cut_count, jiggle_count, passes, drawing>>

(* the inner loop ends: jiggle_count++ *)
JigglePass ==
  /\ pc = "jiggle"
  /\ InJiggle(jiggle_count)
  /\ ~(cut_number < num_cut_ranges)
  /\ jiggle_count' = jiggle_count + 1
  /\ passes' = passes + 1
  /\ cut_number' = 0
  /\ UNCHANGED <<max_dev, curve, undefined_read, pc, search, deques, ranges, moved,
                 drawing>>

(* the outer loop ends; the drawing loop starts *)
JiggleEnd ==
  /\ pc = "jiggle"
  /\ ~InJiggle(jiggle_count)
  /\ pc' = "draw"
  /\ cut_count' = 0
  /\ previous_cut' = 0
  /\ UNCHANGED <<max_dev, curve, undefined_read, search, deques, num_cut_ranges,
                 cut_low, cut_high,
                 cut_point, arc_error, jiggle, arcs>>

-----------------------------------------------------------------------------
(* demo_curve: drawing *)

(* one iteration of for (cut_count = 0; cut_count < num_cut_ranges + 1; ...) *)
DrawArc ==
  /\ pc = "draw"
  /\ cut_count < num_cut_ranges + 1
  /\ LET current_cut == cut_point[cut_count + 1] IN
       /\ arcs' = Append(arcs, <<previous_cut, current_cut>>)
       /\ previous_cut' = current_cut
  /\ cut_count' = cut_count + 1
  /\ UNCHANGED <<max_dev, curve, undefined_read, pc, search, deques, num_cut_ranges,
                 cut_low, cut_high,
                 cut_point, arc_error, jiggle>>

DrawEnd ==
  /\ pc = "draw"
  /\ ~(cut_count < num_cut_ranges + 1)
  /\ pc' = "done"
  /\ UNCHANGED <<max_dev, curve, undefined_read, search, deques, ranges, jiggle, drawing>>

-----------------------------------------------------------------------------
Next ==
  \/ FindCutL \/ BisectL \/ ReturnL \/ ExitL
  \/ FindCutR \/ BisectR \/ ReturnR
  \/ PopEnds \/ Reconcile \/ ReconcileEnd
  \/ Jiggle \/ JigglePass \/ JiggleEnd
  \/ DrawArc \/ DrawEnd

Spec == Init /\ [][Next]_vars

(* find_cut_points_L alone, up to its return.  The program is sequential: *)
(* it takes its next step whenever it has one.                            *)
LeftNext == FindCutL \/ BisectL \/ ReturnL \/ ExitL

LeftSpec == Init /\ [][LeftNext]_vars /\ WF_vars(LeftNext)

-----------------------------------------------------------------------------
(* binary_find_cut_L on a fine grid *)

(* On the grid of S steps a search meets the resolution of the grid after *)
(* GridBits halvings.  Here 1.0 is FineOne = 2^FineBits steps, more than  *)
(* 2^MAX_ITERS, so that the MAX_ITERS halvings of a search from a start   *)
(* in the lower half are all exact; breaks and starts are parameters on   *)
(* this grid.                                                             *)
FineOne == Pow2(FineBits)

(* i of binary_find_cut_L: 0, 1/2, 3/4, 7/8 and values that are not a     *)
(* multiple of 2^MAX_ITERS steps away from 1                              *)
FineStartSet ==
  {0, FineOne \div 2, (3 * FineOne) \div 4, (7 * FineOne) \div 8,
   1, FineOne \div 3, FineOne - 3}

FineBreakSet ==
  {FineOne \div 4, FineOne \div 3, (3 * FineOne) \div 4, FineOne - 2}

FineCurveSet ==
  [nan : {FALSE}, wl : {0, 1}, wr : 1..MaxWeight, brk : FineBreakSet,
   kl : {MaxKappa}, kr : {MaxKappa}]
  \cup
  [nan : {TRUE}, wl : {0}, wr : {0}, brk : {FineOne \div 2},
   kl : {MaxKappa}, kr : {MaxKappa}]

(* binary_find_cut_L (b, i, epsilon) has been called with i = t, the     *)
(* estimate of [i, 1] has failed the fast-path test, low = i, high = 1.0 *)
(* and count = 1                                                         *)
BisectionInit ==
  /\ curve \in FineCurveSet
  /\ t \in FineStartSet
  /\ error = arc_bezier_error_improved(curve, t, FineOne)
  /\ ~FastPath(error)
  /\ pc = "L_bisect"
  /\ low = t /\ high = FineOne /\ cut = 0 /\ count = 1
  /\ evals = 0 /\ steps = 0
  /\ left_cuts = << >> /\ right_cuts = << >>
  /\ undefined_read = FALSE
  /\ num_cut_ranges = 0
  /\ cut_low = << >> /\ cut_high = << >>
  /\ cut_point = << >> /\ arc_error = << >>
  /\ cut_count = 0 /\ jiggle_count = 0 /\ cut_number = 0
  /\ passes = 0 /\ moved = NoMove
  /\ previous_cut = 0 /\ arcs = << >>
  /\ MaxDevIdle

(* the loop of binary_find_cut_L and its return *)
BisectionNext == BisectL \/ ReturnL

BisectionSpec == BisectionInit /\ [][BisectionNext]_vars

-----------------------------------------------------------------------------
(* max_dev and max_dev_approx *)

(* The arguments d0 and d1 are integers.  A candidate t is a fixed-point   *)
(* fraction k / DevOne, written as the integer k; a deviation is a         *)
(* fraction n / DevUnit, written as the integer n, so that the polynomial  *)
(* of max_dev is computed without rounding.                                *)
DevOne == Pow2(DevBits)

DevUnit == DevOne * DevOne * DevOne

DevSet == (0 - MaxDev)..MaxDev

(* n / d for d # 0, rounded to the nearest integer *)
Quot(n, d) == IF d > 0 THEN RoundDiv(n, d) ELSE RoundDiv(0 - n, 0 - d)

(* sqrt (n) for n >= 0, rounded to the nearest integer *)
Sqrt(n) == CHOOSE r \in 0..n : (r = 0 \/ r * r - r < n) /\ n <= r * r + r

(* MAX (e0, e1) and MIN (e0, e1) of max_dev_approx *)
max_dev_approx(a, b) ==
  LET e0 == RoundDiv(3 * Max(Abs(a), Abs(b)) * DevUnit, 4)
      e1 == RoundDiv(4 * (Abs(a) + Abs(b)) * DevUnit, 9)
  IN  Min(e0, e1)

(* the candidate of the branch d0 == d1: .5 *)
Half == DevOne \div 2

(* the candidates array as max_dev fills it before its loop *)
Candidates(a, b) ==
  IF a = b
    THEN <<0, DevOne, Half>>
    ELSE LET delta == a * a - a * b + b * b
             t0 == Quot((2 * a - b) * DevOne, 3 * (a - b))
             t1 == Quot(Sqrt(delta * DevOne * DevOne), 3 * (a - b))
         IN  IF delta = 0 THEN <<0, DevOne, t0>>
             ELSE IF delta > 0 THEN <<0, DevOne, t0 - t1, t0 + t1>>
             ELSE <<0, DevOne>>

(* the polynomial without its factor 3 *)
Deviation_Unscaled(tt, a, b) ==
  Abs(tt * (DevOne - tt) * (a * (DevOne - tt) + b * tt))

(* fabs (3 * t * (1-t) * (d0 * (1 - t) + d1 * t)) *)
Deviation(tt, a, b) ==
  Abs(3 * tt * (DevOne - tt) * (a * (DevOne - tt) + b * tt))

demo_curve ==
  <<curve, pc, search, deques, undefined_read, ranges, jiggle, drawing>>

(* max_dev is called with any two arguments; demo_curve is not running *)
MaxDevInit ==
  /\ curve \in {c \in CurveSet : c.nan}
  /\ pc = "idle"
  /\ DemoCurveEntry
  /\ d0 \in DevSet /\ d1 \in DevSet
  /\ candidates = << >>
  /\ dev_e = 0 /\ dev_i = 0
  /\ divided = FALSE
  /\ dev_pc = "entry"

(* from the entry of max_dev to its loop: the candidates are chosen *)
MaxDevCandidates ==
  /\ dev_pc = "entry"
  /\ candidates' = Candidates(d0, d1)
  /\ divided' = (d0 # d1)
  /\ dev_e' = 0
  /\ dev_i' = 0
  /\ dev_pc' = "loop"
  /\ UNCHANGED <<demo_curve, d0, d1>>

(* one iteration of for (i = 0; i < num_candidates; i++) *)
MaxDevEval ==
  /\ dev_pc = "loop"
  /\ dev_i < Len(candidates)
  /\ LET tt == candidates[dev_i + 1] IN
       IF tt < 0 \/ tt > DevOne
         THEN dev_e' = dev_e
         ELSE dev_e' = Max(dev_e, Deviation(tt, d0, d1))
  /\ dev_i' = dev_i + 1
  /\ UNCHANGED <<demo_curve, d0, d1, candidates, divided, dev_pc>>

(* return e *)
MaxDevReturn ==
  /\ dev_pc = "loop"
  /\ ~(dev_i < Len(candidates))
  /\ dev_pc' = "returned"
  /\ UNCHANGED <<demo_curve, d0, d1, candidates, dev_e, dev_i, divided>>

MaxDevNext == MaxDevCandidates \/ MaxDevEval \/ MaxDevReturn

MaxDevSpec == MaxDevInit /\ [][MaxDevNext]_vars

-----------------------------------------------------------------------------
(* Reading the state *)

Last(q) == q[Len(q)]

(* the start of the search that returned the k-th left cut *)
StartOf(q, k) == IF k = 1 THEN 0 ELSE q[k - 1]

(* find_cut_points_L has returned and left_cuts is as it left it *)
LeftPassDone == pc = "R_loop" /\ right_cuts = << >>

(* find_cut_points_R has returned and right_cuts is as it left it *)
RightPassDone == pc = "R_loop" /\ ~(t > 0)

Refined == pc \in {"draw", "done"}

(* the estimate of the whole curve is below epsilon *)
WholeCurveFits == Less(arc_bezier_error_improved(curve, 0, S), Epsilon)

-----------------------------------------------------------------------------
(* C1: for every curve find_cut_points_L terminates, and left_cuts then    *)
(* ends with exactly 1: the last value pushed is 1 and no earlier one is   *)
(* >= 1.                                                                   *)
C1_EndsAtOne ==
  <>(/\ LeftPassDone
     /\ left_cuts # << >>
     /\ Last(left_cuts) = S
     /\ \A k \in 1..(Len(left_cuts) - 1) : left_cuts[k] < S)

(* C2: after reconcile and refinement the cut_point array is a strictly    *)
(* increasing partition from 0 to 1 (in every run whose behaviour is       *)
(* defined).                                                               *)
C2_StrictPartition ==
  (Refined /\ ~undefined_read) =>
    /\ cut_point[0] = 0
    /\ cut_point[num_cut_ranges + 1] = S
    /\ \A k \in 0..num_cut_ranges : cut_point[k] < cut_point[k + 1]

(* C3 as stated: every adjacent pair of the left sequence, 0 prepended, is *)
(* a segment whose estimate is below epsilon.                              *)
C3_AllWithinTolerance ==
  LeftPassDone =>
    \A k \in 1..Len(left_cuts) :
      Less(arc_bezier_error_improved(curve, StartOf(left_cuts, k), left_cuts[k]),
           Epsilon)

(* the estimate of the segment ending at the cut pushed last *)
LastLeftError ==
  arc_bezier_error_improved(curve, StartOf(left_cuts, Len(left_cuts)),
                            Last(left_cuts))

LeftCutPushed == pc = "L_loop" /\ left_cuts # << >>

(* the width the bounds of a search from start reach after MAX_ITERS *)
(* halvings: (1 - start) / 2^MAX_ITERS, or one grid step              *)
WithinResolution(width, start) ==
  width * Pow2(MAX_ITERS) <= Max(Pow2(MAX_ITERS), S - start)

(* C3 as amended: the segment ending at each cut pushed by find_cut_points_L *)
(* has an estimate below epsilon, or exactly epsilon (the exact hit of the   *)
(* loop), or the cut is the final midpoint of a search that ran all          *)
(* MAX_ITERS iterations and rests on its infeasible bound high, no more than *)
(* one resolution step above its bound low, which is the start of the search *)
(* or a cut whose segment is below epsilon.                                  *)
C3_WithinToleranceOrOnHigh ==
  LeftCutPushed =>
    LET start == StartOf(left_cuts, Len(left_cuts)) IN
      \/ Less(LastLeftError, Epsilon)
      \/ Equal(LastLeftError, Epsilon)
      \/ /\ count > MAX_ITERS
         /\ Last(left_cuts) = cut
         /\ cut = high
         /\ WithinResolution(high - low, start)
         /\ \/ low = start
            \/ Less(arc_bezier_error_improved(curve, start, low), Epsilon)

(* a cut returned on the infeasible bound, its segment above epsilon *)
C3_Witness ==
  /\ LeftCutPushed
  /\ Greater(LastLeftError, Epsilon)
  /\ count > MAX_ITERS
  /\ Last(left_cuts) = high

(* C4: an estimate exactly equal to epsilon passes everywhere: a search     *)
(* whose fast-path estimate equals epsilon returns at once and never enters *)
(* the bisection loop.                                                      *)
C4_TiePassesFastPath ==
  (pc \in {"L_bisect", "R_bisect"} /\ count = 1) => ~Equal(error, Epsilon)

(* C5: the refinement performs exactly 10 passes. *)
C5_TenPasses == Refined => passes = 10

(* C6: after every adjustment the moved cut point lies within its range   *)
(* (granted that the run is defined and that the point was within its     *)
(* range before the adjustment).                                          *)
C6_WithinRange ==
  (/\ moved.k >= 0
   /\ ~undefined_read
   /\ cut_low[moved.k] <= moved.from
   /\ moved.from <= cut_high[moved.k]) =>
    /\ cut_low[moved.k] <= moved.to
    /\ moved.to <= cut_high[moved.k]

(* C7: the cut moves so that the segment with the higher stored error gets *)
(* shorter: to the right when the right segment's error is higher, to the  *)
(* left otherwise (in every run whose behaviour is defined).               *)
C7_ShrinksHigherError ==
  (moved.k >= 0 /\ ~undefined_read) =>
    IF Greater(moved.right, moved.left)
      THEN moved.to >= moved.from
      ELSE moved.to <= moved.from

(* C8: throughout and after the refinement every stored error is the      *)
(* estimate of the current segment (in every run whose behaviour is       *)
(* defined).                                                              *)
C8_ErrorsCurrent ==
  (pc \in {"jiggle", "draw", "done"} /\ ~undefined_read) =>
    \A k \in 0..num_cut_ranges :
      arc_error[k] =
        arc_bezier_error_improved(curve, cut_point[k], cut_point[k + 1])

InBisection == pc = "L_bisect"

(* the loop has ended after MAX_ITERS iterations without an exact hit *)
LoopEnded == pc = "L_bisect" /\ count > MAX_ITERS

(* C12 as stated: in every iteration of binary_find_cut_L the estimate of  *)
(* [start, high] is >= epsilon and low is start or the estimate of         *)
(* [start, low] is < epsilon; when the loop has ended after MAX_ITERS      *)
(* iterations, high - low = (1 - start) / 2^MAX_ITERS and the final        *)
(* midpoint is low or high.                                                *)
C12_ExactHalving ==
  InBisection =>
    /\ \/ Greater(arc_bezier_error_improved(curve, t, high), Epsilon)
       \/ Equal(arc_bezier_error_improved(curve, t, high), Epsilon)
    /\ \/ low = t
       \/ Less(arc_bezier_error_improved(curve, t, low), Epsilon)
    /\ LoopEnded =>
         /\ (high - low) * Pow2(MAX_ITERS) = FineOne - t
         /\ cut \in {low, high}

(* C12 as amended: in every iteration the estimate of [start, high] has    *)
(* failed the test < epsilon (it is >= epsilon or NaN) and low is start or *)
(* the estimate of [start, low] is < epsilon; when the loop has ended      *)
(* after MAX_ITERS iterations, high - low differs from                     *)
(* (1 - start) / 2^MAX_ITERS by no more than one step of the parameter     *)
(* resolution, and by nothing when 1 - start is a whole multiple of        *)
(* 2^MAX_ITERS steps; the final midpoint is low or high.                   *)
C12_HalvingUpToRounding ==
  InBisection =>
    /\ ~Less(arc_bezier_error_improved(curve, t, high), Epsilon)
    /\ \/ low = t
       \/ Less(arc_bezier_error_improved(curve, t, low), Epsilon)
    /\ LoopEnded =>
         /\ Abs((high - low) * Pow2(MAX_ITERS) - (FineOne - t))
              <= Pow2(MAX_ITERS)
         /\ (FineOne - t) % Pow2(MAX_ITERS) = 0 =>
              (high - low) * Pow2(MAX_ITERS) = FineOne - t
         /\ cut \in {low, high}

(* a search from 0 has halved [0, 1] exactly MAX_ITERS times and ends on *)
(* its infeasible bound, above a feasible low                            *)
C12_Witness ==
  /\ LoopEnded
  /\ t = 0
  /\ (high - low) * Pow2(MAX_ITERS) = FineOne
  /\ cut = high
  /\ low > 0
  /\ Less(arc_bezier_error_improved(curve, t, low), Epsilon)

(* the arrays hold the cut ranges built so far and their initial guesses, *)
(* and no cut point has been adjusted yet                                 *)
RangesBuilt == pc = "reconcile" \/ (pc = "jiggle" /\ moved = NoMove)

(* C13: every cut range built by the reconcile loop is a non-empty        *)
(* interval, cut_low[i] <= cut_high[i], its initial guess lies inside it, *)
(* and the initial cut_point array is non-decreasing.                     *)
C13_RangesNonEmpty ==
  RangesBuilt =>
    /\ \A k \in 0..(cut_count - 1) :
         /\ cut_low[k] <= cut_high[k]
         /\ cut_low[k] <= cut_point[k + 1]
         /\ cut_point[k + 1] <= cut_high[k]
         /\ cut_point[k] <= cut_point[k + 1]
    /\ pc = "jiggle" => cut_point[cut_count] <= cut_point[cut_count + 1]

(* C14: the tangent, second derivative and curvature that damp the step   *)
(* of an interior cut point are taken at that cut point's own current     *)
(* parameter, cut_point[i+1], never at its left neighbour or at the fixed *)
(* endpoint 0 (in every run whose behaviour is defined).                  *)
C14_CurvatureAtMovedCut ==
  (moved.k >= 0 /\ ~undefined_read) => moved.at = moved.from

(* C15: when both passes have returned they have pushed the same number   *)
(* of cuts, so the reconcile loop never reads right_cuts.front () from an *)
(* empty deque and leaves no right cut unpaired.                          *)
C15_SameNumberOfCuts ==
  /\ RightPassDone => Len(left_cuts) = Len(right_cuts)
  /\ ~undefined_read
  /\ pc \in {"jiggle", "draw", "done"} => right_cuts = << >>

====
